---- MODULE Spec2Model ----
(***************************************************************************)
(* PyProcessFOAM: the brace-matching dictionary extractor of               *)
(* file_io_functions.py (read_first_dict, read_dict, read_all_dicts), its  *)
(* header and boundary-condition readers, the serializer                   *)
(* construct_foam_dict, and FoamEntry / FoamDict.read of foam_file.py.     *)
(*                                                                         *)
(* A line is a sequence of one-character strings, a line sequence is a     *)
(* sequence of lines.  Loop indices (i, end_id, rd_i) keep Python's        *)
(* 0-based values, so that the -1 of `end_id = -1` and of                  *)
(* `input_list[i - 1]` mean what they mean in the source.                  *)
(***************************************************************************)
EXTENDS Integers, Sequences, FiniteSets, TLC

\* ------------------------------------------------------------------ bounds
\* longest line sequence enumerated exhaustively
MaxLines == 4
\* most keys of a dictionary handed to construct_foam_dict
MaxKeys == 2

\* ---------------------------------------------------------------- constants
FOAM_TAB_SIZE == 4

\* ------------------------------------------------------- lines and strings
DICT_OPEN  == <<"{">>
DICT_CLOSE == <<"}">>

\* the lines the enumerated inputs are made of
LineSet ==
    { <<"a">>, <<" ", "b", "\n">>, <<"{">>, <<"}">>, <<" ", "{", "\n">> }

\* hand-written documents longer than MaxLines: sibling blocks, a nested
\* block, an unterminated block, a stray closing brace after a block
Documents ==
    { << <<"a">>, <<"{">>, <<"x">>, <<"}">>, <<" ", "b", "\n">>, <<"{">>, <<"y">>, <<"}">> >>,
      << <<"a">>, <<"{">>, <<"}">>, <<" ", "b", "\n">>, <<"{">>, <<"x">>, <<"}">> >>,
      << <<"{">>, <<"a">>, <<"{">>, <<"x">>, <<"}">>, <<"}">>, <<"t">> >>,
      << <<"a">>, <<"{">>, <<"x">>, <<"{">>, <<"y">>, <<"}">> >>,
      << <<"{">>, <<"x">>, <<"}">>, <<"}">>, <<"t">> >> }

\* dictionary keys the code names: lines 177 and 190
HEADER_KEY     == <<"h", "e", "a", "d", "e", "r">>
BOUNDARY_FIELD == <<"b", "o", "u", "n", "d", "a", "r", "y", "F", "i", "e", "l", "d">>

\* field files: a banner line, then a boundaryField block with its patches
FieldFiles ==
    { << <<"/", "/", " ", "-">>, BOUNDARY_FIELD, <<"{">>, <<"i">>, <<"{">>, <<"t">>,
         <<"}">>, <<"o">>, <<"{">>, <<"}">>, <<"}">> >>,
      << <<"F">>, <<"/", "/">>, BOUNDARY_FIELD, <<"{">>, <<"i">>, <<"{">>, <<"}">>, <<"}">> >>,
      << BOUNDARY_FIELD, <<"{">>, <<"i">>, <<"{">>, <<"}">>, <<"}">> >>,
      << <<"/", "/">> >>,
      << <<"a">>, <<"/", "/", "-">>, <<"b">> >> }

\* the names read_dict is asked for: "z" occurs in no line, "a" and "b" do
Targets == { <<"z">>, <<"a">>, <<"b">> }

SeqsUpTo(S, n) == UNION { [1..k -> S] : k \in 0..n }

\* texts in the serializer's own layout: name and braces at column 0, one
\* line per entry one tab stop in
CanonicalTexts ==
    { << <<"a", "\n">>, <<"{", "\n">>, <<" ", " ", " ", " ", "x", ";", "\n">>, <<"}", "\n">> >>,
      << <<"a", "\n">>, <<"{", "\n">>, <<" ", " ", " ", " ", "x", ";", "\n">>,
         <<" ", " ", " ", " ", "y", ";", "\n">>, <<"}", "\n">>,
         <<"b", "\n">>, <<"{", "\n">>, <<" ", " ", " ", " ", "z", ";", "\n">>, <<"}", "\n">> >> }

Inputs == SeqsUpTo(LineSet, MaxLines) \cup Documents \cup FieldFiles \cup CanonicalTexts

\* the python dicts handed to construct_foam_dict: up to MaxKeys distinct
\* names, each with a list of content lines (empty, flush left, one tab stop
\* in, six columns in, tab-indented, ragged)
KeySet == { <<"a">>, <<"b">>, <<>>, <<"c", "d">> }
ContentSet ==
    { <<>>,
      << <<"x", "\n">> >>,
      << <<" ", " ", " ", " ", "x", "\n">> >>,
      << <<" ", " ", " ", " ", " ", " ", "x", "\n">> >>,
      << <<"\t", "\t", " ", "x">> >>,
      << <<" ", " ", " ", " ", "x", "\n">>, <<"y", "\n">> >> }
InDicts ==
    { d \in SeqsUpTo(KeySet \X ContentSet, MaxKeys) :
        \A j, k \in 1..Len(d) : j # k => d[j][1] # d[k][1] }

\* the inputs tried with the argument kinds that behave like a list
FewInputs == SeqsUpTo(LineSet, 1) \cup Documents \cup FieldFiles

\* the functions that take a line sequence, and the types they are handed:
\* a str is the path of a readable file whose lines are input_file
\* the statement texts FoamEntry is built from, as its *args tuple: one
\* string, or the physical lines of a wrapped statement
EntryArgSet ==
    { << <<"a", " ", "1", ";">> >>,
      << <<"a", " ", "1">> >>,
      << <<>> >>,
      << <<" ", " ">> >>,
      << <<";">> >>,
      << <<" ", "t", " ", " ", "f", "V", ";", "\n">> >>,
      << <<"[", "0", " ", "-", "1", "]", " ", "1", ";">> >>,
      << <<" ", "[", "0", "]">> >>,
      << <<"[", "-", "]", " ", "1">> >>,
      << <<"p", " ", "[", "0", " ", "2", "]", " ", "0", ";">> >>,
      << <<"a">>, <<"1", ";">> >>,
      << <<"a">>, <<"u", " ", "1">> >> }

\* "round_trip" is construct_foam_dict(read_all_dicts(input_file))
LineOps == { "read_first_dict", "read_all_dicts", "read_dict",
             "read_foam_header", "read_boundary_conditions", "round_trip",
             "FoamDict_read" }
Ops == LineOps \cup { "construct_foam_dict", "FoamEntry" }
LineArgKinds == { "list", "tuple", "str", "int", "dict" }
DictArgKinds == { "dict", "list", "int" }
\* FoamEntry(text, ...) and FoamEntry([text, ...])
EntryArgKinds == { "str", "list" }

\* convert_input_to_list, lines 41-48: the isinstance chain
ListLikeMut(kind) == TRUE
ListLike(kind) == kind \in { "str", "list", "tuple" }

\* Python's `sub in line` on strings
Contains(sub, line) ==
    \E k \in 0..(Len(line) - Len(sub)) : SubSeq(line, k + 1, k + Len(sub)) = sub

IsSpace(c) == c \in {" ", "\t", "\n"}

\* Python's str.strip()
Strip(line) ==
    LET keep == { k \in 1..Len(line) : ~IsSpace(line[k]) }
        lo   == CHOOSE k \in keep : \A m \in keep : k <= m
        hi   == CHOOSE k \in keep : \A m \in keep : m <= k
    IN  IF keep = {} THEN <<>> ELSE SubSeq(line, lo, hi)

\* Python's lst[k] for a 0-based k, a negative k counting from the end
PyIndex(lst, k) == IF k < 0 THEN lst[Len(lst) + k + 1] ELSE lst[k + 1]

\* Python's lst[k:] for k >= 0
SliceFrom(lst, k) == IF k >= Len(lst) THEN <<>> ELSE SubSeq(lst, k + 1, Len(lst))

\* ------------------------------------------------------------------- state
VARIABLES
    op,             \* the public function that was called
    arg_kind,       \* the Python type of its input argument
    input_file,     \* its line-sequence argument
    target,         \* read_dict's dict_name argument as passed, <<>> otherwise
    pc,             \* position in the running code
    err,            \* the exception that ended the call, "none" if none
    \* locals of read_first_dict
    input_list, i, open_braces, found_dict, content, end_id, name, rem_list,
    \* locals of read_all_dicts
    all_input_list, all_found_dict, dicts,
    \* locals of read_dict
    dict_name, rd_input_list, rd_i, rd_content, rd_found_dict,
    rd_rem_list, rd_rem_bound,
    \* local of read_foam_header
    header,
    \* locals of read_boundary_conditions
    bc_dict, bc_phase,
    \* argument and locals of construct_foam_dict
    in_dict, cf_k, dict_list,
    \* FoamEntry: the *args tuple, and the entry built (<<>> while there is
    \* none, else <<name, dimensions, value>>)
    entry_args, entry,
    \* FoamDict.read: <<name, content, found_dict, rem_list>> once returned
    fd_result

firstVars == <<input_list, i, open_braces, found_dict, content, end_id, name, rem_list>>
allVars   == <<all_input_list, all_found_dict, dicts>>
rdVars    == <<dict_name, rd_input_list, rd_i, rd_content, rd_found_dict,
               rd_rem_list, rd_rem_bound>>
argVars   == <<op, arg_kind, input_file, target, entry_args>>
hdVars    == <<header>>
bcVars    == <<bc_dict, bc_phase>>
cfVars    == <<in_dict, cf_k, dict_list>>
feVars    == <<entry, fd_result>>
extVars   == <<hdVars, bcVars, cfVars, feVars>>
vars      == <<argVars, pc, err, firstVars, allVars, rdVars, extVars>>

\* entry of read_first_dict: lines 87-92
EnterFirstDict(lst) ==
    /\ input_list' = lst
    /\ i' = 0
    /\ open_braces' = 0
    /\ found_dict' = FALSE
    /\ content' = <<>>
    /\ end_id' = -1
    /\ name' = <<>>
    /\ rem_list' = <<>>

\* the statement a call starts at once its argument is converted
EntryPc(o) ==
    CASE o = "read_first_dict"          -> "scan"
      [] o = "read_all_dicts"           -> "all_loop"
      [] o = "read_dict"                -> "rd_loop"
      [] o = "read_foam_header"         -> "hd_loop"
      [] o = "read_boundary_conditions" -> "bc_start"
      [] o = "round_trip"               -> "all_loop"
      [] o = "FoamDict_read"            -> "fd_read"

Init ==
    /\ op \in Ops
    /\ arg_kind \in (CASE op \in LineOps -> LineArgKinds
                       [] op = "construct_foam_dict" -> DictArgKinds
                       [] op = "FoamEntry" -> EntryArgKinds)
    /\ entry_args \in (IF op = "FoamEntry" THEN EntryArgSet ELSE {<<>>})
    /\ entry = <<>>
    /\ fd_result = <<>>
    /\ input_file \in (CASE op \notin LineOps -> {<<>>}
                         [] op \in LineOps /\ arg_kind = "list" -> Inputs
                         [] op \in LineOps /\ arg_kind \in {"tuple", "str"} -> FewInputs
                         [] OTHER -> {<<>>})
    /\ in_dict \in (IF op = "construct_foam_dict" /\ arg_kind = "dict"
                    THEN InDicts ELSE {<<>>})
    /\ cf_k = 0
    /\ dict_list = <<>>
    /\ header = <<>>
    /\ bc_dict = <<>>
    /\ bc_phase = 0
    /\ err = "none"
    /\ input_list = input_file
    /\ i = 0
    /\ open_braces = 0
    /\ found_dict = FALSE
    /\ content = <<>>
    /\ end_id = -1
    /\ name = <<>>
    /\ rem_list = <<>>
    /\ all_input_list = input_file
    /\ all_found_dict = TRUE
    /\ dicts = <<>>
    /\ target \in (IF op = "read_dict" THEN Targets ELSE {<<>>})
    /\ dict_name = target
    /\ rd_input_list = input_file
    /\ rd_i = 0
    /\ rd_content = <<>>
    /\ rd_found_dict = FALSE
    /\ rd_rem_list = <<>>
    /\ rd_rem_bound = FALSE
    /\ pc = "enter"

\* ---------------------------------------------------- convert_input_to_list
\* lines 40-49, the first statement of every function that takes lines; the
\* nested calls made later hand it a list, which it returns as it is
ConvertInput ==
    /\ pc = "enter"
    /\ op \in LineOps
    /\ IF ListLike(arg_kind)
       THEN pc' = EntryPc(op) /\ err' = err
       ELSE pc' = "done" /\ err' = "TypeError"
    /\ UNCHANGED <<argVars, firstVars, allVars, rdVars, extVars>>

\* --------------------------------------------------------- read_first_dict
line == input_list[i + 1]

InLoop == pc = "scan" /\ i < Len(input_list)

\* the conditions of the if/elif chain, lines 94, 98, 101, 104
OpenAtTop(ob, ln) == ob = 0 /\ Contains(DICT_OPEN, ln)
OpenNested(ob, ln) == ob > 0 /\ Contains(DICT_OPEN, ln)
CloseNestedMut(ob, ln) == Contains(DICT_CLOSE, ln)
CloseNested(ob, ln) == ob > 1 /\ Contains(DICT_CLOSE, ln)
Inside(ob, ln) == ob > 0

\* lines 94-97
OpenDict ==
    /\ InLoop
    /\ OpenAtTop(open_braces, line)
    /\ found_dict' = TRUE
    /\ name' = Strip(PyIndex(input_list, i - 1))
    /\ open_braces' = open_braces + 1
    /\ i' = i + 1
    /\ UNCHANGED <<argVars, extVars, pc, err, input_list, content, end_id, rem_list,
                   allVars, rdVars>>

\* lines 98-100
NestedOpen ==
    /\ InLoop
    /\ ~OpenAtTop(open_braces, line)
    /\ OpenNested(open_braces, line)
    /\ open_braces' = open_braces + 1
    /\ content' = Append(content, line)
    /\ i' = i + 1
    /\ UNCHANGED <<argVars, extVars, pc, err, input_list, found_dict, name, end_id,
                   rem_list, allVars, rdVars>>

\* lines 101-103
NestedClose ==
    /\ InLoop
    /\ ~OpenAtTop(open_braces, line)
    /\ ~OpenNested(open_braces, line)
    /\ CloseNested(open_braces, line)
    /\ open_braces' = open_braces - 1
    /\ content' = Append(content, line)
    /\ i' = i + 1
    /\ UNCHANGED <<argVars, extVars, pc, err, input_list, found_dict, name, end_id,
                   rem_list, allVars, rdVars>>

\* lines 104-105
AppendLine ==
    /\ InLoop
    /\ ~OpenAtTop(open_braces, line)
    /\ ~OpenNested(open_braces, line)
    /\ ~CloseNested(open_braces, line)
    /\ Inside(open_braces, line)
    /\ content' = Append(content, line)
    /\ i' = i + 1
    /\ UNCHANGED <<argVars, extVars, pc, err, input_list, open_braces, found_dict,
                   name, end_id, rem_list, allVars, rdVars>>

\* lines 106-108: end_id = i; break
StopScan ==
    /\ InLoop
    /\ ~OpenAtTop(open_braces, line)
    /\ ~OpenNested(open_braces, line)
    /\ ~CloseNested(open_braces, line)
    /\ ~Inside(open_braces, line)
    /\ end_id' = i
    /\ pc' = "slice"
    /\ UNCHANGED <<argVars, extVars, err, input_list, i, open_braces, found_dict,
                   content, name, rem_list, allVars, rdVars>>

\* line 93: the for loop runs out of lines
ScanEnd ==
    /\ pc = "scan"
    /\ i >= Len(input_list)
    /\ pc' = "slice"
    /\ UNCHANGED <<argVars, extVars, err, firstVars, allVars, rdVars>>

\* lines 109-111: rem_list = input_list[end_id + 1:]; return to the caller
ReturnFirstDict ==
    /\ pc = "slice"
    /\ rem_list' = SliceFrom(input_list, end_id + 1)
    /\ pc' = CASE op = "read_first_dict" -> "done"
               [] op = "read_dict"       -> "rd_ret"
               [] OTHER                  -> "all_ret"
    /\ UNCHANGED <<argVars, extVars, err, input_list, i, open_braces, found_dict,
                   content, end_id, name, allVars, rdVars>>

\* ---------------------------------------------------------- read_all_dicts
\* python dict assignment d[k] = v; a dict is the sequence of its
\* <<key, value>> pairs in insertion order, an existing key keeps its place
DictPut(d, k, v) ==
    IF \E j \in 1..Len(d) : d[j][1] = k
    THEN [j \in 1..Len(d) |-> IF d[j][1] = k THEN <<k, v>> ELSE d[j]]
    ELSE Append(d, <<k, v>>)

\* python d[k] for a key that is present, and `k in d`
DictHas(d, k) == \E j \in 1..Len(d) : d[j][1] = k
DictGet(d, k) == d[CHOOSE j \in 1..Len(d) : d[j][1] = k][2]

\* line 158-159: the while test holds, read_first_dict(input_list) is called
ReadAllDicts_Call ==
    /\ pc = "all_loop"
    /\ all_found_dict = TRUE
    /\ EnterFirstDict(all_input_list)
    /\ pc' = "scan"
    /\ UNCHANGED <<argVars, extVars, err, allVars, rdVars>>

\* lines 159-160: the call's results are assigned, dicts[name] = content
ReadAllDicts_Store ==
    /\ pc = "all_ret"
    /\ all_found_dict' = found_dict
    /\ all_input_list' = rem_list
    /\ dicts' = DictPut(dicts, name, content)
    /\ pc' = "all_loop"
    /\ UNCHANGED <<argVars, extVars, err, firstVars, rdVars>>

\* lines 155-157: entry of read_all_dicts
EnterAllDicts(lst) ==
    /\ all_input_list' = lst
    /\ all_found_dict' = TRUE
    /\ dicts' = <<>>

\* python d.update(e)
RECURSIVE DictUpdate(_, _)
DictUpdate(d, e) ==
    IF e = <<>> THEN d
    ELSE DictUpdate(DictPut(d, Head(e)[1], Head(e)[2]), Tail(e))

\* lines 158, 161: the while test fails, return dicts to the caller; the
\* second call made by read_boundary_conditions returns into line 191,
\* bc_dict.update(...), and line 193
ReadAllDicts_Return ==
    /\ pc = "all_loop"
    /\ all_found_dict # TRUE
    /\ CASE op = "read_boundary_conditions" /\ bc_phase = 1 ->
                pc' = "bc_lookup" /\ UNCHANGED <<bcVars, cfVars, feVars>>
         [] op = "read_boundary_conditions" /\ bc_phase # 1 ->
                /\ bc_dict' = DictUpdate(bc_dict, dicts)
                /\ pc' = "done"
                /\ UNCHANGED <<bc_phase, cfVars, feVars>>
         [] op = "round_trip" ->
                /\ in_dict' = dicts
                /\ pc' = "cf_enter"
                /\ UNCHANGED <<bcVars, cf_k, dict_list, feVars>>
         [] OTHER ->
                pc' = "done" /\ UNCHANGED <<bcVars, cfVars, feVars>>
    /\ UNCHANGED <<argVars, hdVars, err, firstVars, allVars, rdVars>>

\* --------------------------------------------------------- read_foam_header
\* what re.search(pattern), called without the string to search, does
RE_SEARCH_NO_STRING == "TypeError"

\* lines 65-67: the line is appended, then `re.search('^// *') in line` is
\* evaluated: re.search is called with the pattern alone and raises
ReadHeader_Iter ==
    /\ pc = "hd_loop"
    /\ Len(header) < Len(input_file)
    /\ header' = Append(header, input_file[Len(header) + 1])
    /\ err' = RE_SEARCH_NO_STRING
    /\ pc' = "done"
    /\ UNCHANGED <<argVars, firstVars, allVars, rdVars, bcVars, cfVars, feVars>>

\* line 69: the loop has run out of lines, return header
ReadHeader_Return ==
    /\ pc = "hd_loop"
    /\ Len(header) >= Len(input_file)
    /\ pc' = IF op = "read_foam_header" THEN "done" ELSE "bc_body"
    /\ UNCHANGED <<argVars, err, firstVars, allVars, rdVars, extVars>>

\* ------------------------------------------------- read_boundary_conditions
\* line 176: header = read_foam_header(input_list)
ReadBC_CallHeader ==
    /\ pc = "bc_start"
    /\ header' = <<>>
    /\ pc' = "hd_loop"
    /\ UNCHANGED <<argVars, err, firstVars, allVars, rdVars, bcVars, cfVars, feVars>>

\* lines 177-189: bc_dict = {'header': header}; the header is cut off; the
\* comment filter calls re.search('^\s*//') without a string for the first
\* line it tests, so the dimensions / internalField loop only ever runs over
\* an empty list; then read_all_dicts(input_list) is called
ReadBC_Body ==
    /\ pc = "bc_body"
    /\ bc_dict' = << <<HEADER_KEY, header>> >>
    /\ LET body == SliceFrom(input_file, Len(header))
       IN  IF body # <<>>
           THEN /\ err' = RE_SEARCH_NO_STRING
                /\ pc' = "done"
                /\ UNCHANGED <<allVars, bc_phase>>
           ELSE /\ EnterAllDicts(body)
                /\ bc_phase' = 1
                /\ pc' = "all_loop"
                /\ err' = err
    /\ UNCHANGED <<argVars, firstVars, rdVars, hdVars, cfVars, feVars>>

\* lines 190-191: bf_list = file_dicts['boundaryField'], then
\* read_all_dicts(bf_list)
ReadBC_Lookup ==
    /\ pc = "bc_lookup"
    /\ IF DictHas(dicts, BOUNDARY_FIELD)
       THEN /\ EnterAllDicts(DictGet(dicts, BOUNDARY_FIELD))
            /\ bc_phase' = 2
            /\ pc' = "all_loop"
            /\ err' = err
       ELSE /\ err' = "KeyError"
            /\ pc' = "done"
            /\ UNCHANGED <<allVars, bc_phase>>
    /\ UNCHANGED <<argVars, firstVars, rdVars, hdVars, bc_dict, cfVars, feVars>>

\* ------------------------------------------------------ construct_foam_dict
\* python's str.lstrip()
LStrip(ln) ==
    LET keep == { k \in 1..Len(ln) : ~IsSpace(ln[k]) }
        lo   == CHOOSE k \in keep : \A m \in keep : k <= m
    IN  IF keep = {} THEN <<>> ELSE SubSeq(ln, lo, Len(ln))

\* python's s.rjust(width): spaces are put in front up to width
RJust(str, width) ==
    IF width <= Len(str) THEN str
    ELSE [k \in 1..(width - Len(str)) |-> " "] \o str

\* line 254: len(content[0]) - len(content[0].lstrip())
ContentIndentation(cont) == Len(cont[1]) - Len(LStrip(cont[1]))

\* line 255: max(0, content_indentation - FOAM_TAB_SIZE)
DictIndentationMut(cont) ==
    IF ContentIndentation(cont) > FOAM_TAB_SIZE
    THEN ContentIndentation(cont) ELSE 0
DictIndentation(cont) ==
    IF ContentIndentation(cont) - FOAM_TAB_SIZE > 0
    THEN ContentIndentation(cont) - FOAM_TAB_SIZE ELSE 0

\* lines 256-260: the lines one key adds to dict_list
DictBlock(key, cont) ==
    << RJust(key, Len(key) + DictIndentation(cont)) \o <<"\n">>,
       RJust(DICT_OPEN, 1 + DictIndentation(cont)) \o <<"\n">> >>
    \o cont
    \o << RJust(DICT_CLOSE, 1 + DictIndentation(cont)) \o <<"\n">> >>

\* lines 246-251: the isinstance check, dict_list = []
IsDictMut(kind) == TRUE
IsDict(kind) == kind = "dict"

Construct_Enter ==
    /\ \/ pc = "enter" /\ op = "construct_foam_dict"
       \/ pc = "cf_enter"
    /\ IF IsDict(IF pc = "cf_enter" THEN "dict" ELSE arg_kind)
       THEN /\ dict_list' = <<>>
            /\ cf_k' = 0
            /\ pc' = "cf_loop"
            /\ err' = err
       ELSE /\ err' = "TypeError"
            /\ pc' = "done"
            /\ UNCHANGED <<cf_k, dict_list>>
    /\ UNCHANGED <<argVars, firstVars, allVars, rdVars, hdVars, bcVars, in_dict, feVars>>

\* lines 252-260: one key of the dict; content[0] of an empty list raises
Construct_Iter ==
    /\ pc = "cf_loop"
    /\ cf_k < Len(in_dict)
    /\ LET key  == in_dict[cf_k + 1][1]
           cont == in_dict[cf_k + 1][2]
       IN  IF cont = <<>>
           THEN /\ err' = "IndexError"
                /\ pc' = "done"
                /\ UNCHANGED <<cf_k, dict_list>>
           ELSE /\ dict_list' = dict_list \o DictBlock(key, cont)
                /\ cf_k' = cf_k + 1
                /\ UNCHANGED <<pc, err>>
    /\ UNCHANGED <<argVars, firstVars, allVars, rdVars, hdVars, bcVars, in_dict, feVars>>

\* line 262: return dict_list
Construct_Return ==
    /\ pc = "cf_loop"
    /\ cf_k >= Len(in_dict)
    /\ pc' = "done"
    /\ UNCHANGED <<argVars, err, firstVars, allVars, rdVars, extVars>>

\* ------------------------------------------------- foam_file.py: FoamEntry
END_STMNT == <<";">>

\* python's ' '.join(args)
RECURSIVE JoinArgs(_)
JoinArgs(args) ==
    IF args = <<>> THEN <<>>
    ELSE IF Len(args) = 1 THEN args[1]
    ELSE args[1] \o <<" ">> \o JoinArgs(Tail(args))

\* python's s.split(sep)[0] and s.split(sep, 1)[0]: the text before the
\* first sep, all of s if there is none
BeforeFirst(str, sep) ==
    LET S == { k \in 1..Len(str) : str[k] = sep }
    IN  IF S = {} THEN str
        ELSE SubSeq(str, 1, (CHOOSE k \in S : \A m \in S : k <= m) - 1)

\* python's s.split(sep)[-1]: the text after the last sep
AfterLast(str, sep) ==
    LET S == { k \in 1..Len(str) : str[k] = sep }
    IN  IF S = {} THEN str
        ELSE SubSeq(str, (CHOOSE k \in S : \A m \in S : m <= k) + 1, Len(str))

IsDigit(c) == c \in { "0", "1", "2", "3", "4", "5", "6", "7", "8", "9" }
IsSign(c)  == c \in { "-", "+" }

\* FOAM_DIM_PATTERN, lines 21-22, from position p on, past the opening
\* bracket: ([-+]?\d\s*)*\] ; signed is TRUE right after a sign
RECURSIVE DimItems(_, _, _)
DimItems(str, p, signed) ==
    IF p > Len(str) THEN FALSE
    ELSE IF IsDigit(str[p]) THEN DimItems(str, p + 1, FALSE)
    ELSE IF signed THEN FALSE
    ELSE IF IsSign(str[p]) THEN DimItems(str, p + 1, TRUE)
    ELSE IF IsSpace(str[p]) THEN
         \* \s* only follows the bracket or a digit
         (p > 1 /\ (str[p - 1] = "[" \/ IsDigit(str[p - 1]) \/ IsSpace(str[p - 1])))
            /\ DimItems(str, p + 1, FALSE)
    ELSE str[p] = "]"

\* RE_DIM.match(input_str), line 25: \s*\[ at the start, then the items
DimMatch(str) ==
    /\ LStrip(str) # <<>>
    /\ LStrip(str)[1] = "["
    /\ DimItems(LStrip(str), 2, FALSE)

\* FoamEntry.__init__, lines 189-202.  args is always a tuple, so the str
\* test of line 191 fails and line 193 joins it; a list handed in as the one
\* argument makes join raise.  FoamDimensions (lines 24-30) subscripts the
\* bound method dim_match.group when the pattern matches, which raises.
FoamEntry_Init ==
    /\ pc = "enter"
    /\ op = "FoamEntry"
    /\ LET args  == Strip(JoinArgs(entry_args))
           value == AfterLast(Strip(BeforeFirst(args, END_STMNT[1])), " ")
       IN  IF arg_kind # "str" \/ DimMatch(args)
           THEN err' = "TypeError" /\ entry' = entry
           ELSE err' = err /\ entry' = <<BeforeFirst(args, " "), <<>>, value>>
    /\ pc' = "done"
    /\ UNCHANGED <<argVars, firstVars, allVars, rdVars, hdVars, bcVars, cfVars,
                   fd_result>>

\* ------------------------------------------------ foam_file.py: FoamDict.read
\* read_first_dict (file_io_functions.py lines 88-111) as a function of its
\* input: the loop state after the scan, and the returned tuple
ScanState0 ==
    [i |-> 0, open_braces |-> 0, found_dict |-> FALSE, content |-> <<>>,
     end_id |-> -1, name |-> <<>>]

RECURSIVE FirstDictScan(_, _)
FirstDictScan(lst, st) ==
    IF st.i >= Len(lst) THEN st
    ELSE LET ln == lst[st.i + 1]
             ob == st.open_braces
         IN  IF OpenAtTop(ob, ln) THEN
                 FirstDictScan(lst, [st EXCEPT !.found_dict = TRUE,
                                               !.name = Strip(PyIndex(lst, st.i - 1)),
                                               !.open_braces = ob + 1,
                                               !.i = st.i + 1])
             ELSE IF OpenNested(ob, ln) THEN
                 FirstDictScan(lst, [st EXCEPT !.open_braces = ob + 1,
                                               !.content = Append(st.content, ln),
                                               !.i = st.i + 1])
             ELSE IF CloseNested(ob, ln) THEN
                 FirstDictScan(lst, [st EXCEPT !.open_braces = ob - 1,
                                               !.content = Append(st.content, ln),
                                               !.i = st.i + 1])
             ELSE IF Inside(ob, ln) THEN
                 FirstDictScan(lst, [st EXCEPT !.content = Append(st.content, ln),
                                               !.i = st.i + 1])
             ELSE [st EXCEPT !.end_id = st.i]

ReadFirstDictFn(lst) ==
    LET st == FirstDictScan(lst, ScanState0)
    IN  <<st.name, st.content, st.found_dict, SliceFrom(lst, st.end_id + 1)>>

\* the conditions of FoamDict.read's if/elif chain, lines 264, 268, 271, 274:
\* the third tests DICT_OPEN where read_first_dict tests '}'
FD_OpenAtTop(ob, ln)   == ob = 0 /\ Contains(DICT_OPEN, ln)
FD_OpenNested(ob, ln)  == ob > 0 /\ Contains(DICT_OPEN, ln)
FD_CloseNested(ob, ln) == ob > 1 /\ Contains(DICT_OPEN, ln)
FD_InsideMut(ob, ln)   == ob > 1
FD_Inside(ob, ln)      == ob > 0

\* FoamDict.read, lines 258-280
RECURSIVE FoamDictScan(_, _)
FoamDictScan(lst, st) ==
    IF st.i >= Len(lst) THEN st
    ELSE LET ln == lst[st.i + 1]
             ob == st.open_braces
         IN  IF FD_OpenAtTop(ob, ln) THEN
                 FoamDictScan(lst, [st EXCEPT !.found_dict = TRUE,
                                              !.name = Strip(PyIndex(lst, st.i - 1)),
                                              !.open_braces = ob + 1,
                                              !.i = st.i + 1])
             ELSE IF FD_OpenNested(ob, ln) THEN
                 FoamDictScan(lst, [st EXCEPT !.open_braces = ob + 1,
                                              !.content = Append(st.content, ln),
                                              !.i = st.i + 1])
             ELSE IF FD_CloseNested(ob, ln) THEN
                 FoamDictScan(lst, [st EXCEPT !.open_braces = ob - 1,
                                              !.content = Append(st.content, ln),
                                              !.i = st.i + 1])
             ELSE IF FD_Inside(ob, ln) THEN
                 FoamDictScan(lst, [st EXCEPT !.content = Append(st.content, ln),
                                              !.i = st.i + 1])
             ELSE [st EXCEPT !.end_id = st.i]

FoamDictReadFn(lst) ==
    LET st == FoamDictScan(lst, ScanState0)
    IN  <<st.name, st.content, st.found_dict, SliceFrom(lst, st.end_id + 1)>>

\* the call FoamDict.read(input_file), past its convert_input_to_list
FoamDict_read ==
    /\ pc = "fd_read"
    /\ fd_result' = FoamDictReadFn(input_file)
    /\ pc' = "done"
    /\ UNCHANGED <<argVars, err, firstVars, allVars, rdVars, hdVars, bcVars, cfVars,
                   entry>>

\* --------------------------------------------------------------- read_dict
\* lines 133-137: one iteration over the ORIGINAL list; a line containing
\* dict_name re-slices the current list; read_first_dict is called on it
ReadDict_Iter ==
    /\ pc = "rd_loop"
    /\ rd_i < Len(input_file)
    /\ LET ln  == input_file[rd_i + 1]
           lst == IF Contains(dict_name, ln)
                  THEN SliceFrom(rd_input_list, rd_i)
                  ELSE rd_input_list
       IN  /\ rd_input_list' = lst
           /\ EnterFirstDict(lst)
    /\ pc' = "scan"
    /\ UNCHANGED <<argVars, extVars, err, allVars, dict_name, rd_i, rd_content,
                   rd_found_dict, rd_rem_list, rd_rem_bound>>

\* lines 136-137: the tuple assignment, dict_name included
ReadDict_Assign ==
    /\ pc = "rd_ret"
    /\ dict_name' = name
    /\ rd_content' = content
    /\ rd_found_dict' = found_dict
    /\ rd_rem_list' = rem_list
    /\ rd_rem_bound' = TRUE
    /\ rd_i' = rd_i + 1
    /\ pc' = "rd_loop"
    /\ UNCHANGED <<argVars, extVars, err, firstVars, allVars, rd_input_list>>

\* line 139: return content, found_dict, rem_list; rem_list is a local that
\* only the loop body binds
ReadDict_Return ==
    /\ pc = "rd_loop"
    /\ rd_i >= Len(input_file)
    /\ err' = IF rd_rem_bound THEN "none" ELSE "UnboundLocalError"
    /\ pc' = "done"
    /\ UNCHANGED <<argVars, extVars, firstVars, allVars, rdVars>>

\* ------------------------------------------------------------ specification
Next ==
    \/ ConvertInput
    \/ ReadHeader_Iter
    \/ ReadHeader_Return
    \/ ReadBC_CallHeader
    \/ ReadBC_Body
    \/ ReadBC_Lookup
    \/ Construct_Enter
    \/ Construct_Iter
    \/ Construct_Return
    \/ FoamEntry_Init
    \/ FoamDict_read
    \/ OpenDict
    \/ NestedOpen
    \/ NestedClose
    \/ AppendLine
    \/ StopScan
    \/ ScanEnd
    \/ ReturnFirstDict
    \/ ReadAllDicts_Call
    \/ ReadAllDicts_Store
    \/ ReadAllDicts_Return
    \/ ReadDict_Iter
    \/ ReadDict_Assign
    \/ ReadDict_Return

Spec == Init /\ [][Next]_vars

\* the interpreter always executes the next statement of a running call
FairSpec == Spec /\ WF_vars(Next)

TypeOK ==
    /\ pc \in {"enter", "scan", "slice", "all_loop", "all_ret", "rd_loop", "rd_ret",
               "hd_loop", "bc_start", "bc_body", "bc_lookup",
               "cf_enter", "cf_loop", "fd_read", "done"}
    /\ err \in {"none", "UnboundLocalError", "TypeError", "KeyError", "IndexError"}
    /\ found_dict \in BOOLEAN
    /\ i \in 0..Len(input_list)
    /\ end_id \in -1..Len(input_list)

\* ------------------------------------------------ what the claims speak of
HasOpen(ln)  == Contains(DICT_OPEN, ln)
HasClose(ln) == Contains(DICT_CLOSE, ln)

\* 1-based position of the first line holding an opening brace, 0 if none
FirstOpen(lst) ==
    LET S == { k \in 1..Len(lst) : HasOpen(lst[k]) }
    IN  IF S = {} THEN 0 ELSE CHOOSE k \in S : \A m \in S : k <= m

\* opening minus closing brace lines among lines a..b
Balance(lst, a, b) ==
    Cardinality({ k \in a..b : HasOpen(lst[k]) })
        - Cardinality({ k \in a..b : HasClose(lst[k]) })

\* 1-based position of the closing-brace line matching the opening brace at
\* position o, 0 if the brace is never matched
MatchOf(lst, o) ==
    LET S == { k \in (o + 1)..Len(lst) : Balance(lst, o, k) = 0 }
    IN  IF S = {} THEN 0 ELSE CHOOSE k \in S : \A m \in S : k <= m

MatchClose(lst) == IF FirstOpen(lst) = 0 THEN 0 ELSE MatchOf(lst, FirstOpen(lst))

IsNameLine(ln) == ~HasOpen(ln) /\ ~HasClose(ln)

\* a non-empty run of sibling blocks: name line, '{' line, inner lines, '}' line
RECURSIVE WellFormedBlocks(_)
WellFormedBlocks(lst) ==
    /\ Len(lst) >= 3
    /\ IsNameLine(lst[1])
    /\ HasOpen(lst[2])
    /\ MatchOf(lst, 2) # 0
    /\ \/ MatchOf(lst, 2) = Len(lst)
       \/ WellFormedBlocks(SliceFrom(lst, MatchOf(lst, 2)))

\* the mapping the claim expects of a run of sibling blocks
RECURSIVE ExpectedDicts(_, _)
ExpectedDicts(lst, acc) ==
    IF Len(lst) < 3 THEN acc
    ELSE LET m == MatchOf(lst, 2)
         IN  ExpectedDicts(SliceFrom(lst, m),
                           DictPut(acc, Strip(lst[1]), SubSeq(lst, 3, m - 1)))

FirstDictDone == op = "read_first_dict" /\ pc = "done"

\* ------------------------------------------------------------------ claims

\* C1: for every finite line sequence the loop of read_all_dicts, calling
\* read_first_dict on its own remaining lines, ends: a call returns
\* found_dict = False and read_all_dicts returns.
C1_Terminates == (op = "read_all_dicts") => <>(pc = "done")

\* C2: on a run of well-formed sibling blocks read_all_dicts returns exactly
\* one key per top-level dictionary name, mapped to that dictionary's inner
\* lines, and nothing else.
C2_AllDictsEnumerated ==
    (op = "read_all_dicts" /\ pc = "done" /\ WellFormedBlocks(input_file))
        => dicts = ExpectedDicts(input_file, <<>>)

\* C3: if no line of the input holds an opening brace, read_first_dict
\* returns found_dict = False, an empty content and rem_list equal to the
\* full input.
C3_NoBraceKeepsInput ==
    (FirstDictDone /\ FirstOpen(input_file) = 0)
        => /\ found_dict = FALSE
           /\ content = <<>>
           /\ rem_list = input_file

\* C4: when read_first_dict finds a dictionary, name is the trimmed text of
\* the line immediately preceding the first line that holds an opening brace.
C4_NameIsPrecedingLine ==
    (FirstDictDone /\ found_dict)
        => /\ FirstOpen(input_file) > 1
           /\ name = Strip(input_file[FirstOpen(input_file) - 1])

\* C5: when the closing brace matching the dictionary's opening brace is met
\* the depth returns to 0 and content is exactly the lines strictly between
\* the opening-brace line and that closing-brace line.
C5_ContentBetweenBraces ==
    (FirstDictDone /\ found_dict /\ MatchClose(input_file) # 0)
        => /\ open_braces = 0
           /\ content = SubSeq(input_file, FirstOpen(input_file) + 1,
                               MatchClose(input_file) - 1)

\* C6: when read_first_dict finds a dictionary, rem_list is exactly the lines
\* strictly after the line that closed it.
C6_RemainingIsSuffix ==
    (FirstDictDone /\ found_dict /\ MatchClose(input_file) # 0)
        => rem_list = SliceFrom(input_file, MatchClose(input_file))

\* C7: read_dict asked for a name that occurs in no line of the input (the
\* empty input included) returns found_dict = False with rem_list equal to
\* the original input, and raises nothing.
C7_MissingDictNotFound ==
    (/\ op = "read_dict"
     /\ pc = "done"
     /\ \A k \in 1..Len(input_file) : ~Contains(target, input_file[k]))
        => /\ err = "none"
           /\ rd_found_dict = FALSE
           /\ rd_rem_list = input_file

\* C8: an input whose opening brace is never matched is reported by
\* read_first_dict as a malformed-document error, distinct from both
\* found_dict = True and found_dict = False.
C8_UnmatchedIsError ==
    (FirstDictDone /\ FirstOpen(input_file) # 0 /\ MatchClose(input_file) = 0)
        => err = "FormatError"

\* C9: a closing brace met by read_first_dict while the depth is 0 produces a
\* FormatError.
C9_CloseAtTopIsError ==
    [][(InLoop /\ open_braces = 0 /\ HasClose(line) /\ ~HasOpen(line))
          => err' = "FormatError"]_vars

\* C10: in every state reached while read_first_dict scans a line sequence
\* the brace-depth counter open_braces is >= 0.
C10_DepthNonNegative == open_braces >= 0

\* a nested closing brace has just been scanned: depth went 1, 2, 1
C10_Witness ==
    /\ pc = "scan"
    /\ i = 3
    /\ HasOpen(input_list[1])
    /\ HasOpen(input_list[2])
    /\ HasClose(input_list[3])
    /\ open_braces = 1

\* ----------------------------------- what the claims of the later parts speak of
\* a banner line begins with the line-comment marker
IsBanner(ln) == Len(ln) >= 2 /\ ln[1] = "/" /\ ln[2] = "/"

FirstBanner(lst) ==
    LET S == { k \in 1..Len(lst) : IsBanner(lst[k]) }
    IN  IF S = {} THEN 0 ELSE CHOOSE k \in S : \A m \in S : k <= m

\* the lines up to and including the first banner line, all lines if none
ExpectedHeader(lst) ==
    IF FirstBanner(lst) = 0 THEN lst ELSE SubSeq(lst, 1, FirstBanner(lst))

ExpectedBody(lst) == SliceFrom(lst, Len(ExpectedHeader(lst)))

DIMENSIONS_KEY == <<"d", "i", "m", "e", "n", "s", "i", "o", "n", "s">>
INTERNAL_FIELD_KEY ==
    <<"i", "n", "t", "e", "r", "n", "a", "l", "F", "i", "e", "l", "d">>

IsPatchEntry(p) == p[1] \notin { HEADER_KEY, DIMENSIONS_KEY, INTERNAL_FIELD_KEY }

\* a field file: after the header, sibling blocks one of which is boundaryField
IsFieldFile(lst) ==
    /\ WellFormedBlocks(ExpectedBody(lst))
    /\ DictHas(ExpectedDicts(ExpectedBody(lst), <<>>), BOUNDARY_FIELD)

ExpectedPatches(lst) ==
    ExpectedDicts(DictGet(ExpectedDicts(ExpectedBody(lst), <<>>), BOUNDARY_FIELD), <<>>)

\* number of leading whitespace characters of a line
Lead(ln) == Len(ln) - Len(LStrip(ln))

Spaces(n) == [k \in 1..n |-> " "]

EndsWithNewline(ln) == ln # <<>> /\ ln[Len(ln)] = "\n"

\* text in canonical layout: sibling blocks with name and brace lines at
\* column 0 and every inner line one tab stop in
RECURSIVE Canonical(_)
Canonical(lst) ==
    /\ Len(lst) >= 3
    /\ IsNameLine(lst[1])
    /\ lst[1] = Strip(lst[1]) \o <<"\n">>
    /\ lst[2] = <<"{", "\n">>
    /\ MatchOf(lst, 2) # 0
    /\ lst[MatchOf(lst, 2)] = <<"}", "\n">>
    /\ \A k \in 3..(MatchOf(lst, 2) - 1) :
           Lead(lst[k]) = FOAM_TAB_SIZE /\ EndsWithNewline(lst[k])
    /\ \/ MatchOf(lst, 2) = Len(lst)
       \/ Canonical(SliceFrom(lst, MatchOf(lst, 2)))

\* position in dict_list of the name line of the j-th key's block
RECURSIVE BlockStart(_, _)
BlockStart(d, j) ==
    IF j <= 1 THEN 1 ELSE BlockStart(d, j - 1) + Len(d[j - 1][2]) + 3

Serializing == op \in { "construct_foam_dict", "round_trip" }

\* C11: read_foam_header returns the lines up to and including the first
\* banner line (a line beginning with '//') and returns normally for every
\* line sequence.
C11_HeaderIsBannerPrefix ==
    (op = "read_foam_header" /\ arg_kind \in {"list", "tuple", "str"} /\ pc = "done")
        => /\ err = "none"
           /\ header = ExpectedHeader(input_file)

\* C12: for a field file whose body holds a top-level boundaryField
\* dictionary read_boundary_conditions returns the header and exactly one
\* patch entry per direct child of boundaryField, mapped to its inner lines.
C12_PatchesAreChildren ==
    (/\ op = "read_boundary_conditions"
     /\ arg_kind \in {"list", "tuple", "str"}
     /\ pc = "done"
     /\ IsFieldFile(input_file))
        => /\ err = "none"
           /\ DictHas(bc_dict, HEADER_KEY)
           /\ DictGet(bc_dict, HEADER_KEY) = ExpectedHeader(input_file)
           /\ SelectSeq(bc_dict, IsPatchEntry) = ExpectedPatches(input_file)

\* C13: for a text already in canonical layout
\* construct_foam_dict(read_all_dicts(T)) equals T line for line.
C13_RoundTrip ==
    (/\ op = "round_trip"
     /\ arg_kind \in {"list", "tuple", "str"}
     /\ pc = "done"
     /\ Canonical(input_file))
        => /\ err = "none"
           /\ dict_list = input_file

C15_SerializeNeverFails ==
    (op = "construct_foam_dict" /\ arg_kind = "dict" /\ pc = "done")
        => err = "none"

NoWorkDone ==
    /\ i = 0 /\ content = <<>> /\ found_dict = FALSE /\ rem_list = <<>>
    /\ dicts = <<>>
    /\ rd_i = 0 /\ rd_rem_bound = FALSE
    /\ header = <<>> /\ bc_dict = <<>>
    /\ cf_k = 0 /\ dict_list = <<>>
    /\ fd_result = <<>>

\* C16: a function that takes a line sequence, handed an argument that is
\* not a str, list or tuple, and construct_foam_dict, handed one that is not
\* a dict, raise TypeError at their first statement: nothing else is done.
C16_WrongKindRejected ==
    ((op \in LineOps /\ arg_kind \notin {"str", "list", "tuple"})
        \/ (op = "construct_foam_dict" /\ arg_kind # "dict"))
        => /\ pc \in {"enter", "done"}
           /\ pc = "done" => err = "TypeError"
           /\ NoWorkDone

\* read_boundary_conditions was handed a number and has raised
C16_Witness ==
    /\ op = "read_boundary_conditions"
    /\ arg_kind = "int"
    /\ pc = "done"
    /\ err = "TypeError"

\* C17: FoamEntry construction fails with a format error whenever the
\* statement text holds no terminating ';' or is empty after trimming; no
\* entry is built from such text.
C17_UnterminatedEntryFails ==
    (/\ op = "FoamEntry"
     /\ arg_kind = "str"
     /\ pc = "done"
     /\ \/ ~Contains(END_STMNT, JoinArgs(entry_args))
        \/ Strip(JoinArgs(entry_args)) = <<>>)
        => /\ err = "FormatError"
           /\ entry = <<>>

\* C18: for every line sequence FoamDict.read returns the same
\* (name, content, found_dict, rem_list) as read_first_dict.
C18_ReadersAgree ==
    (op = "FoamDict_read" /\ pc = "done" /\ err = "none")
        => fd_result = ReadFirstDictFn(input_file)

\* FoamDict.read has returned a found dictionary for an input on which the
\* two depth counters end apart
C18_Witness ==
    /\ op = "FoamDict_read"
    /\ pc = "done"
    /\ err = "none"
    /\ fd_result # <<>>
    /\ fd_result[3] = TRUE
    /\ FoamDictScan(input_file, ScanState0).open_braces
         # FirstDictScan(input_file, ScanState0).open_braces
====
